---- MODULE Spec2Model ----
(***************************************************************************)
(* Model of the AQHI tool of hk-environment-mcp-server:                    *)
(*   tools/aqhi.py  parse_aqhi_data, _get_current_aqhi                     *)
(* Text is a sequence of one-character strings; a Python dict is a         *)
(* function whose domain is its key set; a Python list is a sequence.      *)
(* A call either returns a value or raises: Return(v) / Raise(e).          *)
(***************************************************************************)
EXTENDS Integers, Sequences, FiniteSets, TLC

\* ------------------------------------------------------------------ bounds
NumInvocations == 2
MaxItems == 3
MaxTitleLen == 8
MaxDescLen == 6

Invocations == 1..NumInvocations

\* ------------------------------------------------------- Python values
PyNone == [type |-> "none"]
PyDict(d) == [type |-> "dict", val |-> d]
PyList(l) == [type |-> "list", val |-> l]
PyStr(s) == [type |-> "str", val |-> s]

Return(v) == [raised |-> FALSE, value |-> v]
Raise(e) == [raised |-> TRUE, value |-> e]

\* list[n] (0-based): IndexError when n is out of range
ListGet(l, n) == IF n + 1 \in DOMAIN l THEN Return(l[n + 1]) ELSE Raise("IndexError")

\* ------------------------------------------------------------- str methods
Whitespace == {" ", "\t", "\n", "\r"}

\* s[n:] for a 1-based position n
From(s, n) == SubSeq(s, n, Len(s))

\* str.find(sep) as a 1-based position, 0 when sep does not occur
Find(s, sep) ==
  LET hits == {i \in 1..(Len(s) - Len(sep) + 1) : SubSeq(s, i, i + Len(sep) - 1) = sep}
  IN IF hits = {} THEN 0 ELSE CHOOSE i \in hits : \A j \in hits : i <= j

\* str.split(sep): leftmost, non-overlapping occurrences of sep
RECURSIVE Split(_, _)
Split(s, sep) ==
  LET i == Find(s, sep)
  IN IF i = 0 THEN <<s>>
     ELSE <<SubSeq(s, 1, i - 1)>> \o Split(From(s, i + Len(sep)), sep)

\* str.strip(): leading and trailing whitespace removed
RECURSIVE LStrip(_)
LStrip(s) == IF s # <<>> /\ Head(s) \in Whitespace THEN LStrip(Tail(s)) ELSE s

RECURSIVE RStrip(_)
RStrip(s) ==
  IF s # <<>> /\ s[Len(s)] \in Whitespace THEN RStrip(SubSeq(s, 1, Len(s) - 1)) ELSE s

Strip(s) == RStrip(LStrip(s))

\* ------------------------------------------------------------ literals
TitleSep == <<" ", ":", " ">>
DescSep == <<" ", "-", " ">>
TypeSep == <<":">>
Unknown == <<"U", "n", "k", "n", "o", "w", "n">>
EmptyStr == <<>>
AQHI_URL == "https://www.aqhi.gov.hk/epd/ddata/html/out/aqhi_ind_rss_Eng.xml"

\* ------------------------------------------------------- parse_aqhi_data
\* item["title"][0] if "title" in item and item["title"] else ""
ItemTitle(item) ==
  IF "title" \in DOMAIN item /\ item["title"] # <<>>
  THEN ListGet(item["title"], 0)
  ELSE Return(EmptyStr)

\* item["description"][0] if "description" in item and item["description"] else ""
ItemDescription(item) ==
  IF "description" \in DOMAIN item /\ item["description"] # <<>>
  THEN ListGet(item["description"], 0)
  ELSE Return(EmptyStr)

\* slip: the type is looked for in part 0 of the description
StationTypeFirstPart(description) ==
  LET desc_parts == Split(description, DescSep)
  IN IF Len(desc_parts) >= 2
     THEN LET type_info == Split(desc_parts[1], TypeSep)
          IN IF Len(type_info) >= 2 THEN Strip(type_info[1]) ELSE Unknown
     ELSE Unknown

\* station type from the description
StationType(description) ==
  LET desc_parts == Split(description, DescSep)
  IN IF Len(desc_parts) >= 2
     THEN LET type_info == Split(desc_parts[2], TypeSep)
          IN IF Len(type_info) >= 2 THEN Strip(type_info[1]) ELSE Unknown
     ELSE Unknown

\* slip: a two-part title yields a partial record
TitleRecordsPartial(title, description) ==
  LET title_parts == Split(title, TitleSep)
  IN IF Len(title_parts) >= 3
     THEN << [station |-> Strip(title_parts[1]),
              aqhi_value |-> Strip(title_parts[2]),
              risk_level |-> Strip(title_parts[3]),
              station_type |-> StationType(description)] >>
     ELSE IF Len(title_parts) = 2
     THEN << [station |-> Strip(title_parts[1]),
              aqhi_value |-> Strip(title_parts[2]),
              risk_level |-> EmptyStr,
              station_type |-> StationType(description)] >>
     ELSE << >>

\* slip: only titles of exactly three parts are accepted
TitleRecordsExactlyThree(title, description) ==
  LET title_parts == Split(title, TitleSep)
  IN IF Len(title_parts) = 3
     THEN << [station |-> Strip(title_parts[1]),
              aqhi_value |-> Strip(title_parts[2]),
              risk_level |-> Strip(title_parts[3]),
              station_type |-> StationType(description)] >>
     ELSE << >>

\* slip: the parts are stored untrimmed
TitleRecordsUntrimmed(title, description) ==
  LET title_parts == Split(title, TitleSep)
  IN IF Len(title_parts) >= 3
     THEN << [station |-> title_parts[1],
              aqhi_value |-> title_parts[2],
              risk_level |-> title_parts[3],
              station_type |-> StationType(description)] >>
     ELSE << >>

\* the records one item appends to aqhi_data (none or one)
TitleRecords(title, description) ==
  LET title_parts == Split(title, TitleSep)
  IN IF Len(title_parts) >= 3
     THEN << [station |-> Strip(title_parts[1]),
              aqhi_value |-> Strip(title_parts[2]),
              risk_level |-> Strip(title_parts[3]),
              station_type |-> StationType(description)] >>
     ELSE << >>

\* one iteration of the loop over channel["item"]
ItemRecords(item) ==
  LET title == ItemTitle(item)
      description == ItemDescription(item)
  IN IF title.raised THEN title
     ELSE IF description.raised THEN description
     ELSE Return(TitleRecords(title.value, description.value))

\* slip: each item's records are put in front of aqhi_data
RECURSIVE LoopItemsPrepend(_, _)
LoopItemsPrepend(aqhi_data, items) ==
  IF items = <<>> THEN Return(aqhi_data)
  ELSE LET r == ItemRecords(Head(items))
       IN IF r.raised THEN r
          ELSE LoopItemsPrepend(r.value \o aqhi_data, Tail(items))

\* the loop: aqhi_data grows by each item's records, in iteration order
RECURSIVE LoopItems(_, _)
LoopItems(aqhi_data, items) ==
  IF items = <<>> THEN Return(aqhi_data)
  ELSE LET r == ItemRecords(Head(items))
       IN IF r.raised THEN r
          ELSE LoopItems(aqhi_data \o r.value, Tail(items))

\* slip: the channel list is not checked for emptiness
HasChannelUnchecked(d) ==
  /\ "rss" \in DOMAIN d
  /\ "channel" \in DOMAIN d["rss"]

\* the guard of the outer if
HasChannel(d) ==
  /\ "rss" \in DOMAIN d
  /\ "channel" \in DOMAIN d["rss"]
  /\ Len(d["rss"]["channel"]) > 0

\* the key "rss" as text
RssKey == <<"r", "s", "s">>

\* the outer if when xml_data is a str: "rss" in xml_data is a substring
\* test, and xml_data["rss"] subscripts a str with a str, a TypeError
ParseOfStr(text) ==
  IF Find(text, RssKey) # 0 THEN Raise("TypeError") ELSE Return(PyList(<<>>))

\* the body of parse_aqhi_data when xml_data is a dict
ParseOfDict(d) ==
  IF HasChannel(d)
  THEN LET channel == ListGet(d["rss"]["channel"], 0)
       IN IF channel.raised THEN channel
          ELSE IF "item" \in DOMAIN channel.value
               THEN LET r == LoopItems(<<>>, channel.value["item"])
                    IN IF r.raised THEN r ELSE Return(PyList(r.value))
               ELSE Return(PyList(<<>>))
  ELSE Return(PyList(<<>>))

parse_aqhi_data(xml_data) ==
  IF xml_data.type = "str" THEN ParseOfStr(xml_data.val) ELSE ParseOfDict(xml_data.val)

\* ----------------------------------------------------- _get_current_aqhi
\* "error" in xml_data
HasError(xml_data) == "error" \in DOMAIN xml_data.val

\* slip: the error check is missing
AfterFetchUnchecked(xml_data) ==
  [outcome |-> parse_aqhi_data(xml_data), parse_calls |-> 1]

\* slip: an empty parse is reported as an error mapping
AfterFetchEmptyIsError(xml_data) ==
  IF HasError(xml_data)
  THEN [outcome |-> Return(xml_data), parse_calls |-> 0]
  ELSE LET r == parse_aqhi_data(xml_data)
       IN IF ~r.raised /\ r.value.val = <<>>
          THEN [outcome |-> Return(PyDict([error |-> "no data"])), parse_calls |-> 1]
          ELSE [outcome |-> r, parse_calls |-> 1]

\* the part of _get_current_aqhi after the fetch: what it returns and how
\* many times it called parse_aqhi_data
AfterFetch(xml_data) ==
  IF HasError(xml_data)
  THEN [outcome |-> Return(xml_data), parse_calls |-> 0]
  ELSE [outcome |-> parse_aqhi_data(xml_data), parse_calls |-> 1]

\* ------------------------------------------------------------ feed inputs
\* What fetch_xml_from_url can hand back: an error mapping, or the feed as a
\* mapping of lists (tag name -> list of children), any level of which may be
\* missing or empty.
\* "Central/Western : 2 : Low"
TitleCentral ==
  << "C", "e", "n", "t", "r", "a", "l", "/", "W", "e", "s", "t", "e", "r",
     "n", " ", ":", " ", "2", " ", ":", " ", "L", "o", "w" >>

\* "Central/Western - General Stations: 2 Low - Tue, 17 Jun 2025 19:30"
DescCentral ==
  << "C", "e", "n", "t", "r", "a", "l", "/", "W", "e", "s", "t", "e", "r",
     "n", " ", "-", " ", "G", "e", "n", "e", "r", "a", "l", " ", "S", "t",
     "a", "t", "i", "o", "n", "s", ":", " ", "2", " ", "L", "o", "w", " ",
     "-", " ", "T", "u", "e", ",", " ", "1", "7", " ", "J", "u", "n", " ",
     "2", "0", "2", "5", " ", "1", "9", ":", "3", "0" >>

\* "Mong Kok : 10+ : Serious"
TitleRoadside ==
  << "M", "o", "n", "g", " ", "K", "o", "k", " ", ":", " ", "1", "0", "+",
     " ", ":", " ", "S", "e", "r", "i", "o", "u", "s" >>

\* "Mong Kok - Roadside Stations: 10+ Serious"
DescRoadside ==
  << "M", "o", "n", "g", " ", "K", "o", "k", " ", "-", " ", "R", "o", "a",
     "d", "s", "i", "d", "e", " ", "S", "t", "a", "t", "i", "o", "n", "s",
     ":", " ", "1", "0", "+", " ", "S", "e", "r", "i", "o", "u", "s" >>

\* "Southern : 2"
TitleTwoParts ==
  << "S", "o", "u", "t", "h", "e", "r", "n", " ", ":", " ", "2" >>

\* "Southern - General Stations: 2 Low"
DescSouthern ==
  << "S", "o", "u", "t", "h", "e", "r", "n", " ", "-", " ", "G", "e", "n",
     "e", "r", "a", "l", " ", "S", "t", "a", "t", "i", "o", "n", "s", ":",
     " ", "2", " ", "L", "o", "w" >>

\* "Tap Mun : 3 : Low"
TitleTapMun ==
  << "T", "a", "p", " ", "M", "u", "n", " ", ":", " ", "3", " ", ":", " ",
     "L", "o", "w" >>

\* "no dash here"
DescNoDash ==
  << "n", "o", " ", "d", "a", "s", "h", " ", "h", "e", "r", "e" >>

\* "Tung Chung : 4 : Moderate : extra"
TitleFourParts ==
  << "T", "u", "n", "g", " ", "C", "h", "u", "n", "g", " ", ":", " ", "4",
     " ", ":", " ", "M", "o", "d", "e", "r", "a", "t", "e", " ", ":", " ",
     "e", "x", "t", "r", "a" >>

\* "Tung Chung - General Stations"
DescNoColon ==
  << "T", "u", "n", "g", " ", "C", "h", "u", "n", "g", " ", "-", " ", "G",
     "e", "n", "e", "r", "a", "l", " ", "S", "t", "a", "t", "i", "o", "n",
     "s" >>

Item(title, description) == [title |-> <<title>>, description |-> <<description>>]

ItemCentral == Item(TitleCentral, DescCentral)
ItemRoadside == Item(TitleRoadside, DescRoadside)
ItemTwoParts == Item(TitleTwoParts, DescSouthern)
ItemNoDash == Item(TitleTapMun, DescNoDash)
ItemFourParts == Item(TitleFourParts, DescNoColon)
ItemNoTitle == [description |-> <<DescSouthern>>]
ItemEmptyTitle == [title |-> <<>>, description |-> <<>>]
ItemNoDescription == [title |-> <<TitleTapMun>>]

ItemPool ==
  { ItemCentral, ItemRoadside, ItemTwoParts, ItemNoDash, ItemFourParts,
    ItemNoTitle, ItemEmptyTitle, ItemNoDescription }

Feed(items) == PyDict([rss |-> [channel |-> << [item |-> items] >>]])

\* every text of at most n characters over an alphabet
Texts(alphabet, n) == UNION { [1..k -> alphabet] : k \in 0..n }

TitleAlphabet == {"a", " ", ":"}
DescAlphabet == {"a", " ", "-", ":"}

\* feeds with a level of the structure missing or empty
StructuralFeeds ==
  { PyDict([other |-> <<>>]),
    PyDict([rss |-> [version |-> <<>>]]),
    PyDict([rss |-> [channel |-> <<>>]]),
    PyDict([rss |-> [channel |-> << [title |-> <<TitleCentral>>] >>]]),
    PyDict([rss |-> [channel |-> << [item |-> <<>>] >>]]),
    PyDict([rss |-> [channel |-> << [item |-> <<ItemCentral>>],
                                   [item |-> <<ItemRoadside, ItemNoDash>>] >>]]) }

ErrorResponses ==
  { PyDict([error |-> "timeout"]),
    PyDict([error |-> "404", rss |-> [channel |-> << [item |-> <<ItemCentral>>] >>]]) }

\* feeds of up to MaxItems items drawn from ItemPool
PoolFeeds == { Feed(items) : items \in UNION { [1..k -> ItemPool] : k \in 0..MaxItems } }

\* one-item feeds over every short title, and over every short description
TitleFeeds == { Feed(<<Item(t, DescCentral)>>) : t \in Texts(TitleAlphabet, MaxTitleLen) }
DescFeeds == { Feed(<<Item(TitleCentral, d)>>) : d \in Texts(DescAlphabet, MaxDescLen) }

\* the responses served to one invocation, as a list of pools
ParseResponses == << StructuralFeeds \cup ErrorResponses, PoolFeeds, TitleFeeds, DescFeeds >>

\* the responses served while several invocations run, as a list of pools
Responses ==
  << ErrorResponses,
     { PyDict([other |-> <<>>]),
       Feed(<<>>),
       Feed(<<ItemCentral>>),
       Feed(<<ItemTwoParts>>),
       Feed(<<ItemCentral, ItemTwoParts, ItemRoadside>>),
       Feed(<<ItemRoadside, ItemCentral>>) } >>

\* ------------------------------------------------------------------ state
VARIABLES
  pc,          \* pc[i]: where invocation i of _get_current_aqhi stands
  xml_data,    \* the local variable xml_data of each invocation's frame
  result,      \* what each invocation returned (or raised)
  requests,    \* the outbound requests issued so far, in order
  response,    \* what the network handed back to each invocation
  parseCalls,  \* how many times each invocation called parse_aqhi_data
  built,       \* built[h]: how the building of tool host h ended
  tools,       \* tools[h]: the operations attached to tool host h, in order
  toolCall,    \* toolCall[i]: the i-th call of a registered operation
  feedItems,   \* the items of the feed handed to parse_aqhi_data directly
  directOut    \* directOut[form]: what parse_aqhi_data gave for that form of it

hostVars == <<built, tools, toolCall>>

directVars == <<feedItems, directOut>>

vars ==
  <<pc, xml_data, result, requests, response, parseCalls, built, tools, toolCall,
    feedItems, directOut>>

\* the two ways a tool host is built
Hosts == {"register", "create_mcp_server"}

\* no host built, no registered operation called
HostInit ==
  /\ built = [h \in Hosts |-> "none"]
  /\ tools = [h \in Hosts |-> <<>>]
  /\ toolCall = [i \in Invocations |->
                   [host |-> "none", status |-> "none", made |-> <<>>, ret |-> PyNone]]

\* no direct call of parse_aqhi_data made
NoDirectOut == [form \in {} |-> PyNone]

Init ==
  /\ pc = [i \in Invocations |-> "idle"]
  /\ xml_data = [i \in Invocations |-> PyNone]
  /\ result = [i \in Invocations |-> PyNone]
  /\ requests = <<>>
  /\ response = [i \in Invocations |-> PyNone]
  /\ parseCalls = [i \in Invocations |-> 0]
  /\ HostInit
  /\ feedItems = <<>>
  /\ directOut = NoDirectOut

\* slip: xml_data is a module-level variable, one cell for all invocations
FrameShared(i) == 1

\* xml_data is a local of the call: each invocation has its own frame
Frame(i) == i

\* slip: the request is issued a second time
IssueRequestTwice(i, reqs) ==
  reqs \o << [by |-> i, url |-> AQHI_URL], [by |-> i, url |-> AQHI_URL] >>

\* fetch_xml_from_url(url): one GET of the fixed url
IssueRequest(i, reqs) == Append(reqs, [by |-> i, url |-> AQHI_URL])

\* lines 76-77: the invocation blocks in the fetch and gets r back, r being
\* any response of any of the pools
Fetch(i, pools) ==
  /\ pc[i] = "idle"
  /\ \E k \in DOMAIN pools : \E r \in pools[k] :
       /\ response' = [response EXCEPT ![i] = r]
       /\ xml_data' = [xml_data EXCEPT ![Frame(i)] = r]
  /\ requests' = IssueRequest(i, requests)
  /\ pc' = [pc EXCEPT ![i] = "fetched"]
  /\ UNCHANGED <<result, parseCalls>>

\* lines 78-80: the error check, the parse, the return
Complete(i) ==
  /\ pc[i] = "fetched"
  /\ LET out == AfterFetch(xml_data[Frame(i)])
     IN /\ result' = [result EXCEPT ![i] = out.outcome]
        /\ parseCalls' = [parseCalls EXCEPT ![i] = @ + out.parse_calls]
  /\ pc' = [pc EXCEPT ![i] = "done"]
  /\ UNCHANGED <<xml_data, requests, response>>

\* invocations interleaved in any order
Next ==
  \E i \in Invocations :
    \/ Fetch(i, Responses) /\ UNCHANGED <<hostVars, directVars>>
    \/ Complete(i) /\ UNCHANGED <<hostVars, directVars>>

Spec == Init /\ [][Next]_vars

\* one invocation over the wide input set
NextParse ==
  \/ Fetch(1, ParseResponses) /\ UNCHANGED <<hostVars, directVars>>
  \/ Complete(1) /\ UNCHANGED <<hostVars, directVars>>

SpecParse == Init /\ [][NextParse]_vars

\* ------------------------------------------------- building the tool host
\* The modules of the package hkopenai.hk_environment_mcp_server and the
\* names each defines at its top level.
PackageModules ==
  ("server" :> {"create_mcp_server", "main"}) @@
  ("__main__" :> {}) @@
  ("tools.aqhi" :> {"register", "parse_aqhi_data", "_get_current_aqhi"})

\* from hkopenai.hk_environment_mcp_server import <name>
ImportFromPackage(name) ==
  IF name \in DOMAIN PackageModules THEN Return(name) ELSE Raise("ImportError")

\* <module>.<attr> is a name the interpreter can resolve
Resolves(target) ==
  /\ target.module \in DOMAIN PackageModules
  /\ target.attr \in PackageModules[target.module]

\* the operation register() decorates: get_current_aqhi(), which returns
\* _get_current_aqhi() of its own module
RegisterTool ==
  [name |-> "get_current_aqhi", params |-> <<>>,
   target |-> [module |-> "tools.aqhi", attr |-> "_get_current_aqhi"], args |-> <<>>]

\* the operation create_mcp_server() decorates: get_current_aqhi(), which
\* returns tool_aqhi.get_current_aqhi()
ServerTool ==
  [name |-> "get_current_aqhi", params |-> <<>>,
   target |-> [module |-> "tool_aqhi", attr |-> "get_current_aqhi"], args |-> <<>>]

\* register(mcp) on a fresh host: mcp.tool(...) decorates one function
Register ==
  /\ built["register"] = "none"
  /\ tools' = [tools EXCEPT !["register"] = Append(@, RegisterTool)]
  /\ built' = [built EXCEPT !["register"] = "ok"]
  /\ UNCHANGED <<pc, xml_data, result, requests, response, parseCalls, toolCall>>
  /\ UNCHANGED directVars

\* server.py is imported (its line 8 imports tool_aqhi from the package) and
\* create_mcp_server() makes the host and decorates one function
CreateMcpServer ==
  /\ built["create_mcp_server"] = "none"
  /\ LET tool_aqhi == ImportFromPackage("tool_aqhi")
     IN IF tool_aqhi.raised
        THEN /\ built' = [built EXCEPT !["create_mcp_server"] = tool_aqhi.value]
             /\ UNCHANGED tools
        ELSE /\ tools' = [tools EXCEPT !["create_mcp_server"] = Append(@, ServerTool)]
             /\ built' = [built EXCEPT !["create_mcp_server"] = "ok"]
  /\ UNCHANGED <<pc, xml_data, result, requests, response, parseCalls, toolCall>>
  /\ UNCHANGED directVars

\* the host calls an operation attached to it, as its i-th call: the
\* operation's body calls its target, or raises when the target is no name
InvokeTool(h, i) ==
  /\ built[h] = "ok"
  /\ toolCall[i].status = "none"
  /\ \E n \in DOMAIN tools[h] :
       LET t == tools[h][n]
       IN IF Resolves(t.target)
          THEN toolCall' = [toolCall EXCEPT ![i] =
                 [host |-> h, status |-> "running", made |-> <<t.args>>, ret |-> PyNone]]
          ELSE toolCall' = [toolCall EXCEPT ![i] =
                 [host |-> h, status |-> "raised", made |-> <<>>,
                  ret |-> Raise("AttributeError")]]
  /\ UNCHANGED <<pc, xml_data, result, requests, response, parseCalls, built, tools>>
  /\ UNCHANGED directVars

\* the called _get_current_aqhi fetches
ToolFetch(i) ==
  /\ toolCall[i].status = "running"
  /\ Fetch(i, Responses)
  /\ UNCHANGED <<hostVars, directVars>>

\* the called _get_current_aqhi returns, and the operation returns that
ToolComplete(i) ==
  /\ toolCall[i].status = "running"
  /\ Complete(i)
  /\ toolCall' = [toolCall EXCEPT ![i].status = "returned", ![i].ret = result'[i]]
  /\ UNCHANGED <<built, tools, directVars>>

\* hosts built and their operations called, in any order
NextServer ==
  \/ Register
  \/ CreateMcpServer
  \/ \E h \in Hosts : \E i \in Invocations : InvokeTool(h, i)
  \/ \E i \in Invocations : ToolFetch(i)
  \/ \E i \in Invocations : ToolComplete(i)

SpecServer == Init /\ [][NextServer]_vars

\* ------------------------------------- parse_aqhi_data called directly
\* The raw text of a feed: <rss><channel><item><title>..</title>
\* <description>..</description></item>..</channel></rss>, an element being
\* left out where the item has no value for it.
Element(tag, body) == <<"<">> \o tag \o <<">">> \o body \o <<"<", "/">> \o tag \o <<">">>

ChannelTag == <<"c", "h", "a", "n", "n", "e", "l">>
ItemTag == <<"i", "t", "e", "m">>
TitleTag == <<"t", "i", "t", "l", "e">>
DescriptionTag == <<"d", "e", "s", "c", "r", "i", "p", "t", "i", "o", "n">>

ItemXml(item) ==
  Element(ItemTag,
    (IF "title" \in DOMAIN item /\ item["title"] # <<>>
     THEN Element(TitleTag, item["title"][1]) ELSE <<>>)
    \o
    (IF "description" \in DOMAIN item /\ item["description"] # <<>>
     THEN Element(DescriptionTag, item["description"][1]) ELSE <<>>))

RECURSIVE ItemsXml(_)
ItemsXml(items) == IF items = <<>> THEN <<>> ELSE ItemXml(Head(items)) \o ItemsXml(Tail(items))

XmlText(items) == Element(RssKey, Element(ChannelTag, ItemsXml(items)))

\* the two forms of the feed content
Forms == {"text", "mapping"}

\* the feed content in a form
Content(form, items) == IF form = "text" THEN PyStr(XmlText(items)) ELSE Feed(items)

\* a feed of up to MaxItems items of ItemPool is about to be parsed
InitDirect ==
  /\ pc = [i \in Invocations |-> "idle"]
  /\ xml_data = [i \in Invocations |-> PyNone]
  /\ result = [i \in Invocations |-> PyNone]
  /\ requests = <<>>
  /\ response = [i \in Invocations |-> PyNone]
  /\ parseCalls = [i \in Invocations |-> 0]
  /\ HostInit
  /\ feedItems \in UNION { [1..k -> ItemPool] : k \in 0..MaxItems }
  /\ directOut = NoDirectOut

\* parse_aqhi_data(content), the content being the feed in one form
ParseDirect(form) ==
  /\ form \notin DOMAIN directOut
  /\ directOut' = directOut @@ (form :> parse_aqhi_data(Content(form, feedItems)))
  /\ UNCHANGED <<pc, xml_data, result, requests, response, parseCalls, hostVars, feedItems>>

NextDirect == \E form \in Forms : ParseDirect(form)

SpecDirect == InitDirect /\ [][NextDirect]_vars

\* ------------------------------------------------- vocabulary of the claims
Done(i) == pc[i] = "done"

\* invocation i finished and its fetch reported failure / succeeded
Failed(i) == Done(i) /\ HasError(response[i])
Succeeded(i) == Done(i) /\ ~HasError(response[i])

\* a mapping with an error key
ErrorShaped(v) == v.type = "dict" /\ "error" \in DOMAIN v.val

\* the item elements of the source channel (none when the structure is absent)
FeedItems(x) ==
  LET d == x.val
  IN IF /\ "rss" \in DOMAIN d
        /\ "channel" \in DOMAIN d.rss
        /\ d.rss.channel # <<>>
        /\ "item" \in DOMAIN d.rss.channel[1]
     THEN d.rss.channel[1].item
     ELSE <<>>

\* the structure rss -> channel[0] -> item[...] is absent or empty at some level
StructureAbsent(x) ==
  LET d == x.val
  IN \/ "rss" \notin DOMAIN d
     \/ "channel" \notin DOMAIN d.rss
     \/ d.rss.channel = <<>>
     \/ "item" \notin DOMAIN d.rss.channel[1]
     \/ d.rss.channel[1].item = <<>>

TitleOf(item) == IF "title" \in DOMAIN item /\ item.title # <<>> THEN item.title[1] ELSE <<>>
DescriptionOf(item) ==
  IF "description" \in DOMAIN item /\ item.description # <<>> THEN item.description[1] ELSE <<>>

\* the title splits on " : " into at least 3 parts
WellFormed(item) == Len(Split(TitleOf(item), TitleSep)) >= 3

\* the station type the description determines
TypeOf(description) ==
  LET a == Split(description, DescSep)
  IN IF Len(a) < 2 THEN Unknown
     ELSE LET b == Split(a[2], TypeSep)
          IN IF Len(b) < 2 THEN Unknown ELSE Strip(b[1])

\* reading r is the one derived from item
DerivedFrom(r, item) ==
  LET p == Split(TitleOf(item), TitleSep)
  IN r = [station |-> Strip(p[1]), aqhi_value |-> Strip(p[2]),
          risk_level |-> Strip(p[3]), station_type |-> TypeOf(DescriptionOf(item))]

\* the parse of invocation 1 returned a list
Listed == Succeeded(1) /\ ~result[1].raised /\ result[1].value.type = "list"
Readings == result[1].value.val
Items == FeedItems(response[1])
WellFormedItems == SelectSeq(Items, WellFormed)

\* ---------------------------------------------------------------- claims
\* C1: when the fetch hands back a mapping with an error key, the invocation
\* returns exactly that mapping (not wrapped, not raised) and never calls
\* parse_aqhi_data.
C1_ErrorReturnedVerbatim ==
  \A i \in Invocations :
    Failed(i) => /\ ~result[i].raised
                 /\ result[i].value.type = "dict"
                 /\ result[i].value.val = response[i].val
                 /\ parseCalls[i] = 0

C1_Witness ==
  \E i \in Invocations :
    Failed(i) /\ "rss" \in DOMAIN response[i].val /\ ~result[i].raised

\* C2: a feed whose channel holds N items, all well-formed, parses to exactly
\* N readings, the k-th derived from the k-th item.
C2_AllWellFormedInOrder ==
  (Succeeded(1) /\ \A k \in DOMAIN Items : WellFormed(Items[k]))
    => /\ Listed
       /\ Len(Readings) = Len(Items)
       /\ \A k \in DOMAIN Items : DerivedFrom(Readings[k], Items[k])

C2_Witness ==
  /\ Listed
  /\ Len(Items) = 3
  /\ \A k \in DOMAIN Items : WellFormed(Items[k])
  /\ Items[1] # Items[2] /\ Items[2] # Items[3]
  /\ Len(Readings) = 3

\* C3: an item whose title has fewer than 3 parts (a missing or empty title
\* included) contributes no record, and the well-formed items' readings are
\* emitted in their relative feed order.
C3_MalformedOmitted ==
  Succeeded(1)
    => /\ Listed
       /\ Len(Readings) = Len(WellFormedItems)
       /\ \A k \in DOMAIN WellFormedItems : DerivedFrom(Readings[k], WellFormedItems[k])

C3_Witness ==
  /\ Listed
  /\ Len(Items) = 3
  /\ WellFormed(Items[1]) /\ ~WellFormed(Items[2]) /\ WellFormed(Items[3])
  /\ TitleOf(Items[2]) = TitleTwoParts
  /\ Items[1] # Items[3]
  /\ Len(Readings) = 2

\* C4 as stated: the number of readings equals the number of item elements
\* in the source channel.
C4_OnePerItem == Succeeded(1) => (Listed /\ Len(Readings) = Len(Items))

\* C4 as amended: the number of readings equals the number of item elements
\* of the first channel whose title has at least 3 parts, so it never exceeds
\* the number of item elements.
C4_OnePerWellFormedItem ==
  Succeeded(1)
    => /\ Listed
       /\ Len(Readings) = Cardinality({k \in DOMAIN Items : WellFormed(Items[k])})
       /\ Len(Readings) <= Len(Items)

C4_Witness ==
  /\ Listed
  /\ Readings # <<>>
  /\ Len(Readings) < Len(Items)
  /\ \E k \in DOMAIN Items : Len(Split(TitleOf(Items[k]), TitleSep)) > 3

\* " : " occurs in t at position n
SepAt(t, n) == n + 2 <= Len(t) /\ SubSeq(t, n, n + 2) = TitleSep

\* x is y with the whitespace at its two ends removed, and nothing else changed
Trimmed(x, y) ==
  \E i \in 1..(Len(y) + 1) : \E j \in (i - 1)..Len(y) :
    /\ x = SubSeq(y, i, j)
    /\ \A k \in 1..(i - 1) : y[k] \in Whitespace
    /\ \A k \in (j + 1)..Len(y) : y[k] \in Whitespace
    /\ x = <<>> \/ (x[1] \notin Whitespace /\ x[Len(x)] \notin Whitespace)

\* r's three title fields are the text before the first " : " of t, the text
\* up to the next one, and the text up to the one after that (or the end),
\* each trimmed
TitleFields(r, t) ==
  \E a \in 1..Len(t) : \E b \in (a + 3)..Len(t) :
    /\ SepAt(t, a) /\ \A m \in 1..(a - 1) : ~SepAt(t, m)
    /\ SepAt(t, b) /\ \A m \in (a + 3)..(b - 1) : ~SepAt(t, m)
    /\ LET later == {m \in (b + 3)..Len(t) : SepAt(t, m)}
           c == IF later = {} THEN Len(t) + 1
                ELSE CHOOSE m \in later : \A n \in later : m <= n
       IN /\ Trimmed(r.station, SubSeq(t, 1, a - 1))
          /\ Trimmed(r.aqhi_value, SubSeq(t, a + 3, b - 1))
          /\ Trimmed(r.risk_level, SubSeq(t, b + 3, c - 1))

\* C5: a well-formed item's reading has station, aqhi_value and risk_level
\* equal to parts 0, 1 and 2 of the title, trimmed and otherwise kept as text;
\* later parts are ignored. "Central/Western : 2 : Low" gives
\* "Central/Western", "2", "Low"; "10+" stays "10+".
C5_TitleFieldsTrimmedText ==
  Succeeded(1)
    => /\ Listed
       /\ Len(Readings) = Len(WellFormedItems)
       /\ \A k \in DOMAIN WellFormedItems :
            LET t == TitleOf(WellFormedItems[k])
                r == Readings[k]
            IN /\ TitleFields(r, t)
               /\ t = TitleCentral
                    => /\ r.station = <<"C", "e", "n", "t", "r", "a", "l", "/",
                                        "W", "e", "s", "t", "e", "r", "n">>
                       /\ r.aqhi_value = <<"2">>
                       /\ r.risk_level = <<"L", "o", "w">>
               /\ t = TitleRoadside => r.aqhi_value = <<"1", "0", "+">>
               /\ t = TitleFourParts
                    => r.risk_level = <<"M", "o", "d", "e", "r", "a", "t", "e">>

C5_Witness ==
  /\ Listed
  /\ Len(Items) = 1 /\ Len(Readings) = 1
  /\ Readings[1].station = <<"a">>
  /\ Len(Split(TitleOf(Items[1]), TitleSep)[1]) > 1
  /\ Readings[1].risk_level = <<>>

\* C6: station_type depends on the description alone: "Unknown" when the
\* description has fewer than 2 " - " parts or its part 1 has fewer than 2
\* ":" parts, else part 0 of that second split, trimmed; the description
\* never makes an item be skipped or the parse fail.
C6_StationTypeFromDescription ==
  Succeeded(1)
    => /\ Listed
       /\ Len(Readings) = Len(WellFormedItems)
       /\ \A k \in DOMAIN WellFormedItems :
            LET d == DescriptionOf(WellFormedItems[k])
                r == Readings[k]
            IN /\ r.station_type = TypeOf(d)
               /\ d = DescCentral
                    => r.station_type = <<"G", "e", "n", "e", "r", "a", "l", " ",
                                          "S", "t", "a", "t", "i", "o", "n", "s">>
               /\ d = DescNoDash => r.station_type = Unknown

C6_Witness ==
  /\ Listed
  /\ Len(Items) = 1 /\ Len(Readings) = 1
  /\ LET a == Split(DescriptionOf(Items[1]), DescSep)
     IN /\ Len(a) >= 2
        /\ Len(Split(a[1], TypeSep)) >= 2
        /\ Len(Split(a[2], TypeSep)) < 2
  /\ Readings[1].station_type = Unknown

\* C7: structural absence never raises: with rss absent, channel absent or
\* empty, or item absent or empty, the parse returns the empty list; an item
\* without title or description (or with an empty list for it) is read as "".
C7_StructuralAbsenceAbsorbed ==
  Succeeded(1)
    => /\ ~result[1].raised
       /\ result[1].value.type = "list"
       /\ StructureAbsent(response[1]) => Readings = <<>>
       /\ \A k \in DOMAIN Items :
            ("title" \notin DOMAIN Items[k] \/ Items[k].title = <<>>)
              => Len(Readings) = Len(SelectSeq(SubSeq(Items, 1, k - 1), WellFormed))
                                 + Len(SelectSeq(SubSeq(Items, k + 1, Len(Items)), WellFormed))
       /\ \A k \in DOMAIN WellFormedItems :
            ("description" \notin DOMAIN WellFormedItems[k]
               \/ WellFormedItems[k].description = <<>>)
              => Readings[k].station_type = Unknown

C7_Witness ==
  /\ Succeeded(1)
  /\ "rss" \in DOMAIN response[1].val
  /\ "channel" \in DOMAIN response[1].val.rss
  /\ response[1].val.rss.channel = <<>>
  /\ ~result[1].raised
  /\ result[1].value = PyList(<<>>)

\* C8: the result is error-shaped exactly when the fetch reported failure;
\* after a successful fetch it is the list parse_aqhi_data gives for the
\* fetched content, empty or not.
C8_ErrorShapeOnlyOnFetchFailure ==
  \A i \in Invocations :
    Done(i) => /\ ~result[i].raised
               /\ ErrorShaped(result[i].value) <=> HasError(response[i])
               /\ ~HasError(response[i])
                    => /\ result[i].value.type = "list"
                       /\ result[i] = parse_aqhi_data(response[i])

C8_Witness ==
  \E i, j \in Invocations :
    /\ Failed(i) /\ ErrorShaped(result[i].value)
    /\ Succeeded(j) /\ result[j] = Return(PyList(<<>>))
    /\ "rss" \in DOMAIN response[j].val

\* the requests invocation i has issued
RequestsBy(i) == {n \in DOMAIN requests : requests[n].by = i}

\* C9: every invocation issues exactly one request, to the fixed URL, whether
\* the fetch succeeds or fails: no retry, no cached result.
C9_OneRequestPerInvocation ==
  /\ \A i \in Invocations :
       Cardinality(RequestsBy(i)) = IF pc[i] = "idle" THEN 0 ELSE 1
  /\ \A n \in DOMAIN requests :
       requests[n].url = "https://www.aqhi.gov.hk/epd/ddata/html/out/aqhi_ind_rss_Eng.xml"

C9_Witness ==
  \E i, j \in Invocations :
    /\ Failed(i) /\ Succeeded(j)
    /\ requests[1].by = j
    /\ Len(requests) >= 2

\* C10: invocations share no state: however they interleave, each returns
\* what a lone invocation returns for the content of its own fetch, so two
\* invocations that fetch the same content return the same.
C10_InvocationsIndependent ==
  /\ \A i \in Invocations :
       Done(i) => result[i] = AfterFetch(response[i]).outcome
  /\ \A i, j \in Invocations :
       (Done(i) /\ Done(j) /\ response[i] = response[j]) => result[i] = result[j]

C10_Witness ==
  \E i, j \in Invocations :
    /\ i < j
    /\ Done(i) /\ Done(j)
    /\ requests[1].by = j
    /\ response[i] = response[j]
    /\ ~result[i].raised /\ result[i].value.type = "list"
    /\ Len(result[i].value.val) = 2

\* --------------------------------------------------------------- C11
\* building host h ended with exactly one operation attached, named
\* get_current_aqhi and taking no arguments
OneToolAttached(h) ==
  /\ built[h] = "ok"
  /\ Len(tools[h]) = 1
  /\ tools[h][1].name = "get_current_aqhi"
  /\ tools[h][1].params = <<>>

\* the i-th call of a registered operation called the underlying function
\* exactly once, with no arguments, and returned what it returned
CallsUnderlyingOnce(i) ==
  /\ toolCall[i].status # "raised"
  /\ toolCall[i].made = << <<>> >>
  /\ toolCall[i].status = "returned"
       => /\ pc[i] = "done"
          /\ toolCall[i].ret = result[i]
          /\ Cardinality({n \in DOMAIN requests : requests[n].by = i}) = 1

\* the claim, for one way of building the host
HostHonoursClaim(h) ==
  /\ built[h] # "none" => OneToolAttached(h)
  /\ \A i \in Invocations : toolCall[i].host = h => CallsUnderlyingOnce(i)

\* C11: building the server, by create_mcp_server or by register on a tool
\* host, attaches exactly one operation, get_current_aqhi with no arguments,
\* and every call of it calls the underlying AQHI function exactly once with
\* no arguments and returns its result.
C11_OneToolCallsUnderlyingOnce == \A h \in Hosts : HostHonoursClaim(h)

\* the part of C11 about register(mcp) (held by the code)
RegisterHonoursClaim == HostHonoursClaim("register")

\* a registered operation was called and returned a list of readings
RegisterCalled ==
  \E i \in Invocations :
    /\ toolCall[i].host = "register" /\ toolCall[i].status = "returned"
    /\ ~toolCall[i].ret.raised /\ toolCall[i].ret.value.type = "list"
    /\ toolCall[i].ret.value.val # <<>>

\* --------------------------------------------------------------- C12
\* both forms of the feed have been parsed
BothParsed == DOMAIN directOut = Forms

\* C12: parse_aqhi_data takes the raw XML text of a feed as well as its
\* pre-parsed mapping: for a feed of N well-formed items the text gives,
\* without raising, the same N readings in the same order as the mapping.
C12_RawTextParsesLikeMapping ==
  (BothParsed /\ \A k \in DOMAIN feedItems : WellFormed(feedItems[k]))
    => /\ ~directOut["text"].raised
       /\ directOut["text"] = directOut["mapping"]
       /\ Len(directOut["mapping"].value.val) = Len(feedItems)

\* the part of C12 about the pre-parsed mapping (held by the code)
MappingGivesAllReadings ==
  ("mapping" \in DOMAIN directOut /\ \A k \in DOMAIN feedItems : WellFormed(feedItems[k]))
    => /\ ~directOut["mapping"].raised
       /\ Len(directOut["mapping"].value.val) = Len(feedItems)
       /\ \A k \in DOMAIN feedItems :
            DerivedFrom(directOut["mapping"].value.val[k], feedItems[k])

\* the raw text of a feed of two well-formed items was parsed
RawTextParsed ==
  /\ BothParsed
  /\ feedItems = <<ItemCentral, ItemRoadside>>
  /\ directOut["text"] = Raise("TypeError")

====
